---------------------------- MODULE Spec2Model ----------------------------
(***************************************************************************)
(* Model of user/chatserver.c: the single-threaded, net_poll driven chat   *)
(* server.  The state is the client table, the counter num_clients, the    *)
(* pollfd array of the event loop, the loop's position, the process's set  *)
(* of open descriptors, and the system calls issued by the last step.      *)
(*                                                                         *)
(* Byte strings are sequences of one-character strings, so that lengths,   *)
(* prefixes and terminators are what they are in the C code.               *)
(***************************************************************************)
EXTENDS Integers, Sequences, FiniteSets, TLC

(***************************************************************************)
(* Sizes.  The client table of the source has 14 slots; the model runs the *)
(* same code over a smaller table.                                         *)
(***************************************************************************)
MAX_CLIENTS == 2

\* The size of the table in the source.
SRC_MAX_CLIENTS == 14

BUF_SIZE == 512

NAME_SIZE == 32

\* At most this many entries of one net_poll result carry a non-empty mask.
MaxReady == 2

POLLIN == 1

POLLERR == 8

POLLHUP == 16

Slots == 0 .. (MAX_CLIENTS - 1)

\* The flags main tests in revents.
Flags == {POLLIN, POLLERR, POLLHUP}

\* The masks net_poll reports for a ready entry: readable, error or hang-up,
\* and readable together with either.  main tests error and hang-up only
\* through POLLERR | POLLHUP, so a mask holding both repeats these.
Masks == {{POLLIN}, {POLLERR}, {POLLHUP}, {POLLIN, POLLERR}, {POLLIN, POLLHUP}}

\* Descriptors 0, 1 and 2 are the console: printf writes to descriptor 1.
StdFds == {0, 1, 2}

\* The peer address and port accept stores into client_addr.
Peer == [addr |-> 10, port |-> 1000]

(***************************************************************************)
(* String literals of the source.                                          *)
(***************************************************************************)
StrUser == <<"u", "s", "e", "r">>

StrStars == <<"*", "*", "*", " ">>

StrJoined == <<" ", "h", "a", "s", " ", "j", "o", "i", "n", "e", "d", " ", "t", "h", "e", " ", "c", "h", "a", "t", " ", "*", "*", "*", "\n">>

StrLeft == <<" ", "h", "a", "s", " ", "l", "e", "f", "t", " ", "t", "h", "e", " ", "c", "h", "a", "t", " ", "*", "*", "*", "\n">>

StrChanged == <<" ", "i", "s", " ", "n", "o", "w", " ", "k", "n", "o", "w", "n", " ", "a", "s", " ">>

StrWelcome == <<"W", "e", "l", "c", "o", "m", "e", " ", "t", "o", " ", "x", "v", "6", " ", "C", "h", "a", "t", " ", "S", "e", "r", "v", "e", "r", "!", " ", "Y", "o", "u", "r", " ", "n", "a", "m", "e", " ", "i", "s", ":", " ">>

StrFull == <<"S", "e", "r", "v", "e", "r", " ", "i", "s", " ", "f", "u", "l", "l", ".", " ", "P", "l", "e", "a", "s", "e", " ", "t", "r", "y", " ", "a", "g", "a", "i", "n", " ", "l", "a", "t", "e", "r", ".", "\n">>

StrConnected == <<"C", "o", "n", "n", "e", "c", "t", "e", "d", " ", "u", "s", "e", "r", "s", ":", "\n">>

StrYou == <<" ", "(", "y", "o", "u", ")">>

(***************************************************************************)
(* What a client can send in one read.                                     *)
(***************************************************************************)
ReadData ==
    { <<"/", "n", "a", "m", "e", " ", "a", "l", "\n">>,
      <<"/", "n", "a", "m", "e", " ", "\n">>,
      <<"/", "l", "i", "s", "t", "\n">>,
      <<"/", "l", "i", "s", "t", "e", "n", "\n">>,
      <<"h", "i">>,
      <<"h", "i", "\n">> }

\* nonblocking is the set of open descriptors whose file has the O_NONBLOCK
\* flag set.  A new socket is blocking, and only fcntl changes the flag.
\* built records, for each entry of fds, the slot it was made for when the
\* array was built (-1 for the listening socket).
VARIABLES clients, num_clients, server_sock, open, nonblocking, fds, built, nfds, idx, i, j, pc,
          trace

vars ==
    <<clients, num_clients, server_sock, open, nonblocking, fds, built, nfds, idx, i, j, pc,
      trace>>

(***************************************************************************)
(* System calls.  A descriptor is allocated as the lowest one not open.    *)
(***************************************************************************)
RECURSIVE LowestFreeFrom(_, _)
LowestFreeFrom(used, n) == IF n \in used THEN LowestFreeFrom(used, n + 1) ELSE n

LowestFree(used) == LowestFreeFrom(used, 0)

\* A read of up to BUF_SIZE - 1 bytes: msg holds the bytes it returned.
SysRead(fd, n, buf) == [op |-> "read", fd |-> fd, msg |-> buf, len |-> BUF_SIZE - 1, ret |-> n]

SysWrite(fd, msg, len, ret) == [op |-> "write", fd |-> fd, msg |-> msg, len |-> len, ret |-> ret]

SysClose(fd) == [op |-> "close", fd |-> fd, msg |-> <<>>, len |-> 0, ret |-> 0]

SysAccept(fd, ret) == [op |-> "accept", fd |-> fd, msg |-> <<>>, len |-> 0, ret |-> ret]

\* A call of broadcast_message, recorded in front of the writes it issues.
CallBroadcast(msg, len, sender_slot) ==
    [op |-> "broadcast_message", sender_slot |-> sender_slot, msg |-> msg, len |-> len]

\* The outcomes of a write of len bytes: refused, or accepted in full.
WriteOutcomes == {"fail", "ok"}

WriteRet(outcome, len) == IF outcome = "fail" THEN -1 ELSE len

\* An outcome for the write to each slot that can be written in a step: the
\* slots active when the step begins.
WritesOutcomes(cl) == [{s \in DOMAIN cl : cl[s].active = 1} -> WriteOutcomes]

\* No write is issued.
NoWrites == [s \in {} |-> "ok"]

(***************************************************************************)
(* The client table.                                                       *)
(***************************************************************************)
init_clients ==
    [s \in Slots |-> [fd |-> -1, active |-> 0, name |-> <<>>, addr |-> 0, port |-> 0]]

RECURSIVE FindEmptyFrom(_, _)
FindEmptyFrom(cl, s) ==
    IF s >= MAX_CLIENTS THEN -1
    ELSE IF cl[s].active = 0 THEN s
    ELSE FindEmptyFrom(cl, s + 1)

\* A variant that hands out slot 0 again when no slot is free.
find_empty_slot_reuse(cl) == IF FindEmptyFrom(cl, 0) < 0 THEN 0 ELSE FindEmptyFrom(cl, 0)

\* A variant that returns the highest free slot.
find_empty_slot_highest(cl) ==
    IF \A s \in Slots : cl[s].active = 1 THEN -1
    ELSE CHOOSE s \in Slots : cl[s].active = 0 /\ \A u \in Slots : cl[u].active = 0 => u <= s

find_empty_slot(cl) == FindEmptyFrom(cl, 0)

\* A world is the part of the state the handlers change.
World(cl, num, op, tr) == [clients |-> cl, num_clients |-> num, open |-> op, trace |-> tr]

\* A variant that closes the descriptor and leaves the slot active.
remove_client_stale(w, slot) ==
    IF slot < 0 \/ slot >= MAX_CLIENTS \/ w.clients[slot].active = 0
    THEN w
    ELSE [w EXCEPT !.trace = Append(@, SysClose(w.clients[slot].fd)),
                   !.open = @ \ {w.clients[slot].fd},
                   !.num_clients = @ - 1]

\* A variant without the test of the active flag.
remove_client_unguarded(w, slot) ==
    IF slot < 0 \/ slot >= MAX_CLIENTS
    THEN w
    ELSE [w EXCEPT !.trace = Append(@, SysClose(w.clients[slot].fd)),
                   !.open = @ \ {w.clients[slot].fd},
                   !.clients[slot].fd = -1,
                   !.clients[slot].active = 0,
                   !.clients[slot].name = <<>>,
                   !.num_clients = @ - 1]

\* A variant that does not decrement num_clients.
remove_client_nocount(w, slot) ==
    IF slot < 0 \/ slot >= MAX_CLIENTS \/ w.clients[slot].active = 0
    THEN w
    ELSE [w EXCEPT !.trace = Append(@, SysClose(w.clients[slot].fd)),
                   !.open = @ \ {w.clients[slot].fd},
                   !.clients[slot].fd = -1,
                   !.clients[slot].active = 0,
                   !.clients[slot].name = <<>>]

remove_client(w, slot) ==
    IF slot < 0 \/ slot >= MAX_CLIENTS \/ w.clients[slot].active = 0
    THEN w
    ELSE [w EXCEPT !.trace = Append(@, SysClose(w.clients[slot].fd)),
                   !.open = @ \ {w.clients[slot].fd},
                   !.clients[slot].fd = -1,
                   !.clients[slot].active = 0,
                   !.clients[slot].name = <<>>,
                   !.num_clients = @ - 1]

\* A variant that gives up at the first write that fails.
RECURSIVE BroadcastFrom_stop(_, _, _, _, _, _)
BroadcastFrom_stop(cl, msg, len, sender_slot, wr, s) ==
    IF s >= MAX_CLIENTS THEN <<>>
    ELSE IF cl[s].active = 1 /\ s # sender_slot
         THEN <<SysWrite(cl[s].fd, msg, len, WriteRet(wr[s], len))>>
              \o (IF wr[s] = "fail" THEN <<>>
                  ELSE BroadcastFrom_stop(cl, msg, len, sender_slot, wr, s + 1))
         ELSE BroadcastFrom_stop(cl, msg, len, sender_slot, wr, s + 1)

\* A variant that writes to the sender as well.
RECURSIVE BroadcastFrom_all(_, _, _, _, _, _)
BroadcastFrom_all(cl, msg, len, sender_slot, wr, s) ==
    IF s >= MAX_CLIENTS THEN <<>>
    ELSE IF cl[s].active = 1
         THEN <<SysWrite(cl[s].fd, msg, len,
                         WriteRet(IF s \in DOMAIN wr THEN wr[s] ELSE "ok", len))>>
              \o BroadcastFrom_all(cl, msg, len, sender_slot, wr, s + 1)
         ELSE BroadcastFrom_all(cl, msg, len, sender_slot, wr, s + 1)

RECURSIVE BroadcastFrom(_, _, _, _, _, _)
BroadcastFrom(cl, msg, len, sender_slot, wr, s) ==
    IF s >= MAX_CLIENTS THEN <<>>
    ELSE IF cl[s].active = 1 /\ s # sender_slot
         THEN <<SysWrite(cl[s].fd, msg, len, WriteRet(wr[s], len))>>
              \o BroadcastFrom(cl, msg, len, sender_slot, wr, s + 1)
         ELSE BroadcastFrom(cl, msg, len, sender_slot, wr, s + 1)

\* wr[s] is the outcome of the write to slot s, should one be issued.
broadcast_message(w, msg, len, sender_slot, wr) ==
    [w EXCEPT !.trace = @ \o <<CallBroadcast(msg, len, sender_slot)>>
                          \o BroadcastFrom(w.clients, msg, len, sender_slot, wr, 0)]


(***************************************************************************)
(* handle_new_connection.  client_fd is what accept returned, ww the       *)
(* outcome of the write to the new descriptor, wr those of the broadcast.  *)
(***************************************************************************)
Digit(d) == <<"0", "1", "2", "3", "4", "5", "6", "7", "8", "9">>[d + 1]

\* The do-while loop: the digits of temp, least significant first.
RECURSIVE SlotDigits(_)
SlotDigits(temp) ==
    <<Digit(temp % 10)>> \o (IF temp \div 10 > 0 THEN SlotDigits(temp \div 10) ELSE <<>>)

Reverse(s) == [k \in 1 .. Len(s) |-> s[Len(s) + 1 - k]]

\* A variant that names every session after slot 0.
DefaultName_fixed(slot) == StrUser \o <<"0">>

DefaultName(slot) == StrUser \o Reverse(SlotDigits(slot))

WelcomeMsg(name) == StrWelcome \o name \o <<"\n">>

JoinMsg(name) == StrStars \o name \o StrJoined

LeaveMsg(name) == StrStars \o name \o StrLeft

\* A variant that leaves the refused descriptor open.
RejectConnection_leak(w, client_fd, ww) ==
    [w EXCEPT !.trace = @ \o <<SysWrite(client_fd, StrFull, Len(StrFull),
                                        WriteRet(ww, Len(StrFull)))>>]

\* No free slot: the notice is written to the new descriptor, which is closed.
RejectConnection(w, client_fd, ww) ==
    [w EXCEPT !.trace = @ \o <<SysWrite(client_fd, StrFull, Len(StrFull),
                                        WriteRet(ww, Len(StrFull))),
                               SysClose(client_fd)>>,
              !.open = @ \ {client_fd}]

\* A variant without the test of what accept returned.
handle_new_connection_unchecked(w, sock, client_fd, ww, wr) ==
    LET w1 == [w EXCEPT !.trace = Append(@, SysAccept(sock, client_fd))]
        slot == find_empty_slot(w.clients)
    IN  IF slot < 0
        THEN RejectConnection(w1, client_fd, ww)
        ELSE LET name == DefaultName(slot)
                 w2 == [w1 EXCEPT !.clients[slot] =
                                      [fd |-> client_fd, active |-> 1, name |-> name,
                                       addr |-> Peer.addr, port |-> Peer.port],
                                  !.num_clients = @ + 1,
                                  !.trace = Append(@, SysWrite(client_fd, WelcomeMsg(name),
                                                               Len(WelcomeMsg(name)),
                                                               WriteRet(ww, Len(WelcomeMsg(name)))))]
             IN  broadcast_message(w2, JoinMsg(name), Len(JoinMsg(name)), slot,
                                   [s \in Slots |-> "ok"])

handle_new_connection(w, sock, client_fd, ww, wr) ==
    LET w1 == [w EXCEPT !.trace = Append(@, SysAccept(sock, client_fd)),
                        !.open = IF client_fd < 0 THEN @ ELSE @ \cup {client_fd}]
        slot == find_empty_slot(w.clients)
    IN  IF client_fd < 0 THEN w1
        ELSE IF slot < 0
        THEN RejectConnection(w1, client_fd, ww)
        ELSE LET name == DefaultName(slot)
                 w2 == [w1 EXCEPT !.clients[slot] =
                                      [fd |-> client_fd, active |-> 1, name |-> name,
                                       addr |-> Peer.addr, port |-> Peer.port],
                                  !.num_clients = @ + 1,
                                  !.trace = Append(@, SysWrite(client_fd, WelcomeMsg(name),
                                                               Len(WelcomeMsg(name)),
                                                               WriteRet(ww, Len(WelcomeMsg(name)))))]
             IN  broadcast_message(w2, JoinMsg(name), Len(JoinMsg(name)), slot, wr)

(***************************************************************************)
(* handle_client_data.  n is what read returned and buf the bytes read     *)
(* (n = Len(buf) when n > 0).  C indexes from 0, sequences from 1.         *)
(***************************************************************************)
IsNameCmd(n, buf) ==
    n > 6 /\ buf[1] = "/" /\ buf[2] = "n" /\ buf[3] = "a" /\ buf[4] = "m" /\ buf[5] = "e"
          /\ buf[6] = " "

IsListCmd(n, buf) ==
    n >= 5 /\ buf[1] = "/" /\ buf[2] = "l" /\ buf[3] = "i" /\ buf[4] = "s" /\ buf[5] = "t"

\* A variant whose copy loop stops one byte later.
RECURSIVE ExtractName_long(_, _, _, _)
ExtractName_long(n, buf, k, new_len) ==
    IF k < n /\ buf[k + 1] # "\n" /\ buf[k + 1] # "\r" /\ new_len < NAME_SIZE
    THEN <<buf[k + 1]>> \o ExtractName_long(n, buf, k + 1, new_len + 1)
    ELSE <<>>

\* The copy loop of the rename: from C index k, with new_len bytes copied.
RECURSIVE ExtractName(_, _, _, _)
ExtractName(n, buf, k, new_len) ==
    IF k < n /\ buf[k + 1] # "\n" /\ buf[k + 1] # "\r" /\ new_len < NAME_SIZE - 1
    THEN <<buf[k + 1]>> \o ExtractName(n, buf, k + 1, new_len + 1)
    ELSE <<>>

RenameMsg(old_name, new_name) ==
    StrStars \o old_name \o StrChanged \o new_name \o <<" ", "*", "*", "*", "\n">>

\* A variant that marks every row as the requester's.
RECURSIVE ListRows_allyou(_, _, _)
ListRows_allyou(cl, slot, s) ==
    IF s \notin DOMAIN cl THEN <<>>
    ELSE IF cl[s].active = 1
         THEN <<" ", "-", " ">> \o cl[s].name \o StrYou
              \o <<"\n">> \o ListRows_allyou(cl, slot, s + 1)
         ELSE ListRows_allyou(cl, slot, s + 1)

\* The loop over the table, whose slots are 0 .. MAX_CLIENTS - 1.
RECURSIVE ListRows(_, _, _)
ListRows(cl, slot, s) ==
    IF s \notin DOMAIN cl THEN <<>>
    ELSE IF cl[s].active = 1
         THEN <<" ", "-", " ">> \o cl[s].name \o (IF s = slot THEN StrYou ELSE <<>>)
              \o <<"\n">> \o ListRows(cl, slot, s + 1)
         ELSE ListRows(cl, slot, s + 1)

ListMsg(cl, slot) == StrConnected \o ListRows(cl, slot, 0)

\* A variant that never appends the terminator.
ChatMsg_raw(name, n, buf) == <<"[">> \o name \o <<"]", " ">> \o buf

ChatMsg(name, n, buf) ==
    <<"[">> \o name \o <<"]", " ">> \o buf
    \o (IF n > 0 /\ buf[n] # "\n" THEN <<"\n">> ELSE <<>>)

\* A variant that excludes the renaming session, as the other broadcasts do.
RenameSender_self(slot) == slot

\* The sender_slot argument of the rename broadcast: nobody is excluded.
RenameSender(slot) == -1

handle_client_data(w, slot, n, buf, wr) ==
    LET fd == w.clients[slot].fd
        name == w.clients[slot].name
        w1 == [w EXCEPT !.trace = Append(@, SysRead(fd, n, buf))]
    IN  IF n <= 0
        THEN broadcast_message(remove_client(w1, slot), LeaveMsg(name), Len(LeaveMsg(name)),
                               slot, wr)
        ELSE IF IsNameCmd(n, buf)
        THEN LET new_name == ExtractName(n, buf, 6, 0)
                 w2 == [w1 EXCEPT !.clients[slot].name = new_name]
             IN  broadcast_message(w2, RenameMsg(name, new_name),
                                   Len(RenameMsg(name, new_name)), RenameSender(slot), wr)
        ELSE IF IsListCmd(n, buf)
        THEN [w1 EXCEPT !.trace = Append(@, SysWrite(fd, ListMsg(w.clients, slot),
                                                     Len(ListMsg(w.clients, slot)),
                                                     WriteRet(wr[slot],
                                                              Len(ListMsg(w.clients, slot)))))]
        ELSE broadcast_message(w1, ChatMsg(name, n, buf), Len(ChatMsg(name, n, buf)), slot, wr)

(***************************************************************************)
(* build_poll_array: the listening socket, then the active clients.  fds   *)
(* is the written prefix of the array; nfds is the count returned.         *)
(***************************************************************************)
PollFd(fd) == [fd |-> fd, events |-> {POLLIN}, revents |-> {}]

\* A variant that makes an entry for every slot, active or not.
RECURSIVE PollClientsFrom_every(_, _)
PollClientsFrom_every(cl, s) ==
    IF s >= MAX_CLIENTS THEN <<>>
    ELSE <<PollFd(cl[s].fd)>> \o PollClientsFrom_every(cl, s + 1)

RECURSIVE PollClientsFrom(_, _)
PollClientsFrom(cl, s) ==
    IF s >= MAX_CLIENTS THEN <<>>
    ELSE IF cl[s].active = 1 THEN <<PollFd(cl[s].fd)>> \o PollClientsFrom(cl, s + 1)
    ELSE PollClientsFrom(cl, s + 1)

build_poll_array(cl, sock) == <<PollFd(sock)>> \o PollClientsFrom(cl, 0)

(***************************************************************************)
(* main.                                                                   *)
(***************************************************************************)
SysExit(status) == [op |-> "exit", fd |-> -1, msg |-> <<>>, len |-> 0, ret |-> status]

TheWorld == World(clients, num_clients, open, <<>>)

SetWorld(w) ==
    /\ clients' = w.clients
    /\ num_clients' = w.num_clients
    /\ open' = w.open
    /\ trace' = w.trace

Init ==
    /\ clients = init_clients
    /\ num_clients = 0
    /\ server_sock = -1
    /\ open = StdFds
    /\ nonblocking = {}
    /\ fds = <<>>
    /\ built = <<>>
    /\ nfds = 0
    /\ idx = 0
    /\ i = 0
    /\ j = 0
    /\ pc = "setup"
    /\ trace = <<>>

\* socket, bind and listen, any of which may fail and end the process.
Setup ==
    /\ pc = "setup"
    /\ \E r \in {"ok", "socket_failed", "bind_failed", "listen_failed"} :
         LET fd == LowestFree(open)
         IN  /\ server_sock' = IF r = "socket_failed" THEN -1 ELSE fd
             /\ open' = IF r = "ok" THEN open \cup {fd} ELSE open
             /\ pc' = IF r = "ok" THEN "build" ELSE "exit"
             /\ trace' = IF r = "ok" THEN <<>>
                         ELSE IF r = "socket_failed" THEN <<SysExit(1)>>
                         ELSE <<SysClose(fd), SysExit(1)>>
    /\ UNCHANGED <<nonblocking, built, clients, num_clients, fds, nfds, idx, i, j>>

\* The slots build_poll_array makes an entry for, in the order of the entries.
RECURSIVE BuiltSlotsFrom(_, _)
BuiltSlotsFrom(cl, s) ==
    IF s >= MAX_CLIENTS THEN <<>>
    ELSE IF cl[s].active = 1 THEN <<s>> \o BuiltSlotsFrom(cl, s + 1)
    ELSE BuiltSlotsFrom(cl, s + 1)

BuildPoll ==
    /\ pc = "build"
    /\ fds' = build_poll_array(clients, server_sock)
    /\ nfds' = Len(fds')
    /\ built' = <<-1>> \o BuiltSlotsFrom(clients, 0)
    /\ pc' = "poll"
    /\ trace' = <<>>
    /\ UNCHANGED <<nonblocking, clients, num_clients, server_sock, open, idx, i, j>>

\* net_poll returns a negative value.
PollError ==
    /\ pc = "poll"
    /\ pc' = "build"
    /\ trace' = <<>>
    /\ UNCHANGED <<nonblocking, built, clients, num_clients, server_sock, open, fds, nfds, idx, i, j>>

\* A variant that goes on to the dispatch although no entry is ready.
PollTimeout_dispatch ==
    /\ pc = "poll"
    /\ pc' = "server"
    /\ trace' = <<>>
    /\ UNCHANGED <<nonblocking, built, clients, num_clients, server_sock, open, fds, nfds, idx, i, j>>

\* net_poll returns 0: no entry is ready.
PollTimeout ==
    /\ pc = "poll"
    /\ pc' = "build"
    /\ trace' = <<>>
    /\ UNCHANGED <<nonblocking, built, clients, num_clients, server_sock, open, fds, nfds, idx, i, j>>

\* net_poll returns the number of entries it gave a non-empty mask.
PollReady ==
    /\ pc = "poll"
    /\ \E R \in SUBSET (1 .. nfds) :
         /\ Cardinality(R) >= 1
         /\ Cardinality(R) <= MaxReady
         /\ \E m \in [R -> Masks] :
              fds' = [k \in 1 .. nfds |->
                        [fds[k] EXCEPT !.revents = IF k \in R THEN m[k] ELSE {}]]
    /\ pc' = "server"
    /\ trace' = <<>>
    /\ UNCHANGED <<nonblocking, built, clients, num_clients, server_sock, open, nfds, idx, i, j>>

\* The listening socket's entry: accept when readable, leave the loop on
\* error or hang-up.
ServerEvent ==
    /\ pc = "server"
    /\ IF POLLIN \in fds[1].revents
       THEN \/ SetWorld(handle_new_connection(TheWorld, server_sock, -1, "ok", NoWrites))
            \/ \E ww \in WriteOutcomes, wr \in WritesOutcomes(clients) :
                 SetWorld(handle_new_connection(TheWorld, server_sock, LowestFree(open),
                                                ww, wr))
       ELSE SetWorld(TheWorld)
    /\ IF fds[1].revents \cap {POLLERR, POLLHUP} # {}
       THEN pc' = "cleanup" /\ idx' = 0
       ELSE pc' = "clients" /\ idx' = 1
    /\ i' = 0
    /\ UNCHANGED <<nonblocking, built, server_sock, fds, nfds, j>>

\* The entries of fds from idx on that hold the descriptor of slot s.
Matches(s) == {k \in idx .. (nfds - 1) : fds[k + 1].fd = clients[s].fd}

Min(S) == CHOOSE x \in S : \A y \in S : x <= y

InLoop == i < MAX_CLIENTS /\ idx < nfds

\* An iteration for a slot that is inactive or has no entry.
ClientSkip ==
    /\ pc = "clients"
    /\ InLoop
    /\ clients[i].active = 0 \/ Matches(i) = {}
    /\ i' = i + 1
    /\ trace' = <<>>
    /\ UNCHANGED <<nonblocking, built, clients, num_clients, server_sock, open, fds, nfds, idx, j, pc>>

\* The entry of slot i is found; handle_client_data runs if it is readable.
\* Its read returns 0 (end of file), a negative value, or data.
ClientData ==
    /\ pc = "clients"
    /\ InLoop
    /\ clients[i].active = 1
    /\ Matches(i) # {}
    /\ j' = Min(Matches(i))
    /\ IF POLLIN \in fds[j' + 1].revents
       THEN \/ \E wr \in WritesOutcomes(clients) :
                 SetWorld(handle_client_data(TheWorld, i, 0, <<>>, wr))
            \/ \E wr \in WritesOutcomes(clients) :
                 SetWorld(handle_client_data(TheWorld, i, -1, <<>>, wr))
            \/ \E buf \in ReadData, wr \in WritesOutcomes(clients) :
                 SetWorld(handle_client_data(TheWorld, i, Len(buf), buf, wr))
       ELSE SetWorld(TheWorld)
    /\ pc' = "hup"
    /\ UNCHANGED <<nonblocking, built, server_sock, fds, nfds, idx, i>>

\* A variant that stays on the slot it has just dispatched.
ClientHup_again ==
    /\ pc = "hup"
    /\ IF fds[j + 1].revents \cap {POLLERR, POLLHUP} # {}
       THEN \E wr \in WritesOutcomes(clients) :
              LET leave_msg == LeaveMsg(clients[i].name)
              IN  SetWorld(broadcast_message(remove_client(TheWorld, i), leave_msg,
                                             Len(leave_msg), -1, wr))
       ELSE SetWorld(TheWorld)
    /\ idx' = idx + 1
    /\ i' = i
    /\ j' = 0
    /\ pc' = "clients"
    /\ UNCHANGED <<nonblocking, built, server_sock, fds, nfds>>

\* The same entry: the slot is removed on error or hang-up.
ClientHup ==
    /\ pc = "hup"
    /\ IF fds[j + 1].revents \cap {POLLERR, POLLHUP} # {}
       THEN \E wr \in WritesOutcomes(clients) :
              LET leave_msg == LeaveMsg(clients[i].name)
              IN  SetWorld(broadcast_message(remove_client(TheWorld, i), leave_msg,
                                             Len(leave_msg), -1, wr))
       ELSE SetWorld(TheWorld)
    /\ idx' = idx + 1
    /\ i' = i + 1
    /\ j' = 0
    /\ pc' = "clients"
    /\ UNCHANGED <<nonblocking, built, server_sock, fds, nfds>>

\* The for loop ends and the while loop starts over.
ClientsDone ==
    /\ pc = "clients"
    /\ ~InLoop
    /\ pc' = "build"
    /\ idx' = 0
    /\ i' = 0
    /\ trace' = <<>>
    /\ UNCHANGED <<nonblocking, built, clients, num_clients, server_sock, open, fds, nfds, j>>

\* A variant that closes no session descriptor.
CloseActiveFrom_none(cl, s) == <<>>

RECURSIVE CloseActiveFrom(_, _)
CloseActiveFrom(cl, s) ==
    IF s >= MAX_CLIENTS THEN <<>>
    ELSE IF cl[s].active = 1 THEN <<SysClose(cl[s].fd)>> \o CloseActiveFrom(cl, s + 1)
    ELSE CloseActiveFrom(cl, s + 1)

\* After the loop: every active descriptor and the listening one are closed.
Cleanup ==
    /\ pc = "cleanup"
    /\ trace' = CloseActiveFrom(clients, 0) \o <<SysClose(server_sock), SysExit(0)>>
    /\ open' = (open \ {clients[s].fd : s \in {t \in Slots : clients[t].active = 1}})
               \ {server_sock}
    /\ pc' = "exit"
    /\ UNCHANGED <<nonblocking, built, clients, num_clients, server_sock, fds, nfds, idx, i, j>>

Next ==
    \/ Setup
    \/ BuildPoll
    \/ PollError
    \/ PollTimeout
    \/ PollReady
    \/ ServerEvent
    \/ ClientSkip
    \/ ClientData
    \/ ClientHup
    \/ ClientsDone
    \/ Cleanup

Spec == Init /\ [][Next]_vars

\* The process is never suspended for good: when a step is possible, one is
\* taken.
FairSpec == Spec /\ WF_vars(Next)

(***************************************************************************)
(* Vocabulary of the properties.                                           *)
(***************************************************************************)
ActiveSlots(cl) == {s \in Slots : cl[s].active = 1}

TraceWrites(tr) == {k \in DOMAIN tr : tr[k].op = "write"}

TraceReads(tr) == {k \in DOMAIN tr : tr[k].op = "read"}

WritesTo(tr, fd) == {k \in TraceWrites(tr) : tr[k].fd = fd}

HasPrefix(msg, pre) == Len(msg) >= Len(pre) /\ SubSeq(msg, 1, Len(pre)) = pre

HasSuffix(msg, suf) ==
    Len(msg) >= Len(suf) /\ SubSeq(msg, Len(msg) - Len(suf) + 1, Len(msg)) = suf

Contains(msg, sub) ==
    \E k \in 0 .. (Len(msg) - Len(sub)) : SubSeq(msg, k + 1, k + Len(sub)) = sub

\* A leave announcement: "*** <nickname> has left the chat ***\n".
IsLeaveText(msg) ==
    /\ Len(msg) >= Len(StrStars) + Len(StrLeft)
    /\ HasPrefix(msg, StrStars)
    /\ HasSuffix(msg, StrLeft)

LeaveWrites(tr) == {k \in TraceWrites(tr) : IsLeaveText(tr[k].msg)}

Released(s) == clients[s].active = 1 /\ clients'[s].active = 0

\* The step is the readable half of the dispatch of slot i's entry.
DataStep == pc = "clients" /\ pc' = "hup"

\* The mask of the entry that step dispatches.
DataMask == fds[j' + 1].revents

(***************************************************************************)
(* C1.  Every teardown of a session broadcasts exactly one leave           *)
(* announcement: each session still active is written the announcement     *)
(* once, it carries the nickname the session had before its release, it is *)
(* not written to the released descriptor, and no leave announcement is    *)
(* written in a step that releases no session.                             *)
(***************************************************************************)
C1_OneLeavePerTeardown ==
    [][/\ \A s \in Slots :
            Released(s) =>
              /\ \A r \in ActiveSlots(clients') :
                    Cardinality(LeaveWrites(trace') \cap WritesTo(trace', clients'[r].fd)) = 1
              /\ \A k \in LeaveWrites(trace') :
                    /\ trace'[k].msg = StrStars \o clients[s].name \o StrLeft
                    /\ trace'[k].fd # clients[s].fd
       /\ LeaveWrites(trace') # {} => \E s \in Slots : Released(s)]_vars

(***************************************************************************)
(* C2.  An entry whose mask holds POLLIN together with POLLERR or POLLHUP  *)
(* is dispatched without a read on its descriptor.                         *)
(***************************************************************************)
C2_HangupSupersedesRead ==
    [][(DataStep /\ POLLIN \in DataMask /\ DataMask \cap {POLLERR, POLLHUP} # {})
          => TraceReads(trace') = {}]_vars

(***************************************************************************)
(* C3.  A read that returns a negative value (nothing to read now) leaves  *)
(* the table, the counter and the open descriptors as they were and writes *)
(* to no session.                                                          *)
(***************************************************************************)
C3_NotReadyReadIsIgnored ==
    [][(DataStep /\ \E k \in TraceReads(trace') : trace'[k].ret < 0)
          => /\ clients' = clients
             /\ num_clients' = num_clients
             /\ open' = open
             /\ TraceWrites(trace') = {}]_vars

(***************************************************************************)
(* C4.  At most MAX_CLIENTS sessions are active at any time: counted as    *)
(* active slots, by num_clients, and as accepted descriptors still open.   *)
(***************************************************************************)
C4_AtMostMaxClients ==
    /\ Cardinality(ActiveSlots(clients)) <= MAX_CLIENTS
    /\ num_clients <= MAX_CLIENTS
    /\ Cardinality(open \ (StdFds \cup {server_sock})) <= MAX_CLIENTS

\* The table is full and a connection accepted in the last step got no slot.
C4_Witness ==
    /\ num_clients = MAX_CLIENTS
    /\ \E k \in DOMAIN trace :
          /\ trace[k].op = "accept"
          /\ trace[k].ret >= 0
          /\ \A s \in Slots : clients[s].fd # trace[k].ret

\* The step is the dispatch of the listening socket's entry, and accept
\* returned a new descriptor in it.
AcceptStep ==
    /\ pc = "server"
    /\ trace' # <<>>
    /\ trace'[1].op = "accept"
    /\ trace'[1].ret >= 0

RECURSIVE Ascending(_)
Ascending(S) ==
    IF S = {} THEN <<>>
    ELSE LET m == CHOOSE x \in S : \A y \in S : x <= y
         IN  <<m>> \o Ascending(S \ {m})

\* The decimal numeral of n, without padding.
RECURSIVE Decimal(_)
Decimal(n) ==
    IF n < 10 THEN <<Digit(n)>> ELSE Decimal(n \div 10) \o <<Digit(n % 10)>>

(***************************************************************************)
(* C5.  A connection accepted while every slot is active is written the    *)
(* notice and closed; the table, the counter and the open descriptors are  *)
(* unchanged and nothing is written to an existing session.                *)
(***************************************************************************)
C5_FullTableRejects ==
    [][(AcceptStep /\ ActiveSlots(clients) = Slots)
          => LET client_fd == trace'[1].ret
             IN  /\ Len(trace') = 3
                 /\ trace'[2].op = "write"
                 /\ trace'[2].fd = client_fd
                 /\ trace'[2].msg = StrFull
                 /\ trace'[2].len = Len(StrFull)
                 /\ trace'[3] = SysClose(client_fd)
                 /\ client_fd \notin open'
                 /\ open' = open
                 /\ clients' = clients
                 /\ num_clients' = num_clients
                 /\ \A s \in Slots : WritesTo(trace', clients[s].fd) = {}]_vars

\* The last step refused a connection: every slot is active, the notice was
\* written and the descriptor closed.
C5_Witness ==
    /\ ActiveSlots(clients) = Slots
    /\ Len(trace) = 3
    /\ trace[1].op = "accept"
    /\ trace[2].op = "write"
    /\ trace[2].msg = StrFull
    /\ trace[3].op = "close"

(***************************************************************************)
(* C6.  A connection accepted while a slot is free activates the free slot *)
(* of lowest index and no other: the slot gets the new descriptor and the  *)
(* nickname "user" followed by the decimal digits of its index, every      *)
(* other slot is unchanged, and the number of sessions grows by one.  The  *)
(* nickname is "user" and the decimal index for every slot of the source's *)
(* table.                                                                  *)
(***************************************************************************)
C6_AdmitsIntoLowestFreeSlot ==
    [][(AcceptStep /\ ActiveSlots(clients) # Slots)
          => LET client_fd == trace'[1].ret
                 slot == CHOOSE s \in Slots \ ActiveSlots(clients) :
                            \A u \in Slots \ ActiveSlots(clients) : s <= u
             IN  /\ clients' = [clients EXCEPT ![slot] =
                                   [fd |-> client_fd, active |-> 1,
                                    name |-> <<"u", "s", "e", "r">> \o Decimal(slot),
                                    addr |-> Peer.addr, port |-> Peer.port]]
                 /\ num_clients' = num_clients + 1
                 /\ ActiveSlots(clients') = ActiveSlots(clients) \cup {slot}
                 /\ \A s \in 0 .. (SRC_MAX_CLIENTS - 1) :
                       DefaultName(s) = <<"u", "s", "e", "r">> \o Decimal(s)]_vars

\* The last step admitted a connection into slot 0 while slot 1 was active.
C6_Witness ==
    /\ trace # <<>>
    /\ trace[1].op = "accept"
    /\ clients[0].active = 1
    /\ clients[0].fd = trace[1].ret
    /\ clients[1].active = 1

(***************************************************************************)
(* C7.  Every call of broadcast_message writes the full message once to    *)
(* each active slot other than sender_slot, in slot order, and to nobody   *)
(* else, whatever the writes return; with sender_slot = -1 every active    *)
(* slot is written.                                                        *)
(***************************************************************************)
C7_BroadcastReachesEveryOtherSlot ==
    \A k \in DOMAIN trace :
        trace[k].op = "broadcast_message" =>
            LET to == Ascending(ActiveSlots(clients) \ {trace[k].sender_slot})
            IN  /\ k + Len(to) <= Len(trace)
                /\ \A r \in 1 .. Len(to) :
                      /\ trace[k + r].op = "write"
                      /\ trace[k + r].fd = clients[to[r]].fd
                      /\ trace[k + r].msg = trace[k].msg
                      /\ trace[k + r].len = Len(trace[k].msg)
                /\ k + Len(to) < Len(trace) => trace[k + Len(to) + 1].op # "write"

\* A broadcast in which a write failed and the next recipient was still
\* written.
C7_Witness ==
    \E k \in DOMAIN trace :
        /\ trace[k].op = "broadcast_message"
        /\ k + 2 <= Len(trace)
        /\ trace[k + 1].op = "write"
        /\ trace[k + 1].ret < 0
        /\ trace[k + 2].op = "write"
        /\ trace[k + 2].ret >= 0

\* Write k of the trace was issued by a call of broadcast_message.
InBroadcast(tr, k) ==
    \E b \in 1 .. (k - 1) :
        /\ tr[b].op = "broadcast_message"
        /\ \A m \in (b + 1) .. k : tr[m].op = "write"

\* A broadcast's write to the session in slot s failed in the last step.
FailedWriteTo(s) ==
    /\ clients[s].active = 1
    /\ \E k \in WritesTo(trace, clients[s].fd) : trace[k].ret < 0 /\ InBroadcast(trace, k)

(***************************************************************************)
(* C8.  A session to which a write failed is released later on (unless the *)
(* server ends first), whether or not end of file, an error or a hang-up   *)
(* is ever reported for it.                                                *)
(***************************************************************************)
C8_FailedRecipientIsReleased ==
    \A s \in Slots : FailedWriteTo(s) ~> (clients[s].active = 0 \/ pc = "exit")

\* The bytes of the last step's read, if it was a read that returned data.
ReadBytes(tr) == IF tr # <<>> /\ tr[1].op = "read" /\ tr[1].ret > 0 THEN tr[1].msg ELSE <<>>

(***************************************************************************)
(* C9.  When a session sends "/name " and at least one more byte, one      *)
(* announcement "*** <old> is now known as <new> ***\n", with the nickname *)
(* before and the nickname after the command, is written once to every     *)
(* active session, the renaming one included, and to nobody else; the set  *)
(* of active sessions, their number and every other slot are unchanged.    *)
(***************************************************************************)
C9_RenameAnnouncedToAll ==
    [][(DataStep /\ Len(ReadBytes(trace')) > 6
                 /\ HasPrefix(ReadBytes(trace'), <<"/", "n", "a", "m", "e", " ">>))
          => LET old_name == clients[i].name
                 new_name == clients'[i].name
                 text == <<"*", "*", "*", " ">> \o old_name \o StrChanged \o new_name
                         \o <<" ", "*", "*", "*", "\n">>
             IN  /\ \A s \in ActiveSlots(clients) :
                       Cardinality(WritesTo(trace', clients[s].fd)) = 1
                 /\ WritesTo(trace', clients[i].fd) # {}
                 /\ \A k \in TraceWrites(trace') :
                       /\ trace'[k].msg = text
                       /\ trace'[k].len = Len(text)
                       /\ Contains(trace'[k].msg, old_name)
                       /\ Contains(trace'[k].msg, new_name)
                       /\ \E s \in ActiveSlots(clients) : trace'[k].fd = clients[s].fd
                 /\ num_clients' = num_clients
                 /\ open' = open
                 /\ clients' = [clients EXCEPT ![i].name = new_name]]_vars

\* The last step was a rename by one of at least two sessions, announced to
\* the renaming session too.
C9_Witness ==
    /\ pc = "hup"
    /\ HasPrefix(ReadBytes(trace), <<"/", "n", "a", "m", "e", " ">>)
    /\ Cardinality(ActiveSlots(clients)) >= 2
    /\ WritesTo(trace, clients[i].fd) # {}
    /\ clients[i].name = <<"a", "l">>

\* The listing for the requester: the header, then a row for each active
\* slot in ascending order, the requester's row marked.
RECURSIVE ListingRows(_, _, _)
ListingRows(cl, slots, requester) ==
    IF slots = <<>> THEN <<>>
    ELSE <<" ", "-", " ">> \o cl[Head(slots)].name
         \o (IF Head(slots) = requester THEN <<" ", "(", "y", "o", "u", ")">> ELSE <<>>)
         \o <<"\n">> \o ListingRows(cl, Tail(slots), requester)

IsListCommand(bytes) ==
    \/ bytes = <<"/", "l", "i", "s", "t">>
    \/ bytes = <<"/", "l", "i", "s", "t", "\n">>
    \/ bytes = <<"/", "l", "i", "s", "t", "\r", "\n">>

(***************************************************************************)
(* C10.  When a session sends the list command, the only write is one to   *)
(* the requester: the header and one row per active session in slot order, *)
(* the requester's row alone marked "(you)"; the table, the counter and    *)
(* the open descriptors are unchanged.                                     *)
(***************************************************************************)
C10_ListingOnlyToRequester ==
    [][(DataStep /\ IsListCommand(ReadBytes(trace')))
          => LET text == StrConnected
                         \o ListingRows(clients, Ascending(ActiveSlots(clients)), i)
             IN  /\ Len(trace') = 2
                 /\ trace'[2].op = "write"
                 /\ trace'[2].fd = clients[i].fd
                 /\ trace'[2].msg = text
                 /\ trace'[2].len = Len(text)
                 /\ clients' = clients
                 /\ num_clients' = num_clients
                 /\ open' = open]_vars

\* The last step answered a list command while several sessions were
\* active, the requester not being the first.
C10_Witness ==
    /\ pc = "hup"
    /\ IsListCommand(ReadBytes(trace))
    /\ Cardinality(ActiveSlots(clients)) >= 2
    /\ i > 0
    /\ Len(trace) = 2
    /\ trace[2].op = "write"

\* The bytes are plain chat: they open neither with the rename token nor
\* with the list token.
IsPlainData(bytes) ==
    /\ bytes # <<>>
    /\ ~HasPrefix(bytes, <<"/", "n", "a", "m", "e", " ">>)
    /\ ~HasPrefix(bytes, <<"/", "l", "i", "s", "t">>)

C12_WelcomeThenJoin ==
    [][(AcceptStep /\ ActiveSlots(clients) # Slots)
          => LET client_fd == trace'[1].ret
                 slot == CHOOSE s \in Slots : clients[s].active = 0 /\ clients'[s].active = 1
                 name == clients'[slot].name
                 welcome == StrWelcome \o name \o <<"\n">>
                 join == <<"*", "*", "*", " ">> \o name \o StrJoined
             IN  /\ clients'[slot].fd = client_fd
                 /\ WritesTo(trace', client_fd) = {2}
                 /\ trace'[2].msg = welcome
                 /\ trace'[2].len = Len(welcome)
                 /\ \A s \in ActiveSlots(clients) :
                       Cardinality(WritesTo(trace', clients[s].fd)) = 1
                 /\ \A k \in TraceWrites(trace') \ {2} :
                       /\ k > 2
                       /\ trace'[k].msg = join
                       /\ trace'[k].len = Len(join)
                       /\ \E s \in ActiveSlots(clients) : trace'[k].fd = clients[s].fd]_vars

\* The last step admitted a connection into slot 1: "user1" was welcomed on
\* the new descriptor and then announced to the session in slot 0.
C12_Witness ==
    /\ Len(trace) >= 4
    /\ trace[1].op = "accept"
    /\ trace[2].op = "write"
    /\ trace[2].fd = clients[1].fd
    /\ trace[2].msg = StrWelcome \o <<"u", "s", "e", "r", "1", "\n">>
    /\ trace[4].op = "write"
    /\ trace[4].fd = clients[0].fd
    /\ trace[4].msg = <<"*", "*", "*", " ", "u", "s", "e", "r", "1">> \o StrJoined

(***************************************************************************)
(* C13.  Every active session has a non-empty nickname, also after a       *)
(* rename command whose name part is empty.                                *)
(***************************************************************************)
C13_NicknameNonEmpty ==
    \A s \in Slots : clients[s].active = 1 => clients[s].name # <<>>

(***************************************************************************)
(* C14.  No two active sessions hold the same descriptor and no active     *)
(* session holds the listening descriptor; while the process runs, every   *)
(* active session's descriptor is open.  accept returns a descriptor that  *)
(* is not open.                                                            *)
(***************************************************************************)
C14_HandlesDistinct ==
    /\ \A s, t \in ActiveSlots(clients) : s # t => clients[s].fd # clients[t].fd
    /\ \A s \in ActiveSlots(clients) :
          /\ clients[s].fd # server_sock
          /\ pc # "exit" => clients[s].fd \in open

\* The last step admitted a connection into slot 0 on a descriptor that was
\* in use before: the session in slot 1 holds a higher one.
C14_Witness ==
    /\ trace # <<>>
    /\ trace[1].op = "accept"
    /\ trace[1].ret = clients[0].fd
    /\ ActiveSlots(clients) = {0, 1}
    /\ clients[0].fd < clients[1].fd
    /\ clients[0].fd \notin StdFds \cup {server_sock}

(***************************************************************************)
(* C15.  Once the listening socket is set up it is in non-blocking mode,   *)
(* and every active session's descriptor is in non-blocking mode, from its *)
(* admission on and so before any read or write on it.                     *)
(***************************************************************************)
C15_HandlesNonBlocking ==
    /\ pc \notin {"setup", "exit"} => server_sock \in nonblocking
    /\ \A s \in ActiveSlots(clients) : pc # "exit" => clients[s].fd \in nonblocking

\* The step is taken while the client entries of a cycle are dispatched.
InClientPhase(p) == p \in {"clients", "hup"}

(***************************************************************************)
(* C16.  In one cycle the listening socket's entry is processed first and  *)
(* once: accept is called only in that step, the client entries are taken  *)
(* up only after it, starting at slot 0; handle_client_data is called only *)
(* for the slot the loop is at, and after a slot has been dispatched the   *)
(* loop moves to the next one, so sessions are handled in strictly         *)
(* ascending slot order.                                                   *)
(***************************************************************************)
C16_ServerFirstThenAscending ==
    [][/\ (\E k \in DOMAIN trace' : trace'[k].op = "accept")
             => (pc = "server" /\ trace'[1].fd = server_sock)
       /\ pc' = "server" => pc = "poll"
       /\ (InClientPhase(pc') /\ ~InClientPhase(pc)) => (pc = "server" /\ i' = 0)
       /\ TraceReads(trace') # {}
             => /\ DataStep
                /\ \A k \in TraceReads(trace') : trace'[k].fd = clients[i].fd
       /\ (InClientPhase(pc) /\ InClientPhase(pc'))
             => /\ i' >= i
                /\ i' <= i + 1
                /\ DataStep => i' = i
                /\ pc = "hup" => i' = i + 1]_vars

\* Both sessions were readable in this cycle; the entry of slot 0 has been
\* dispatched and handle_client_data has just read from slot 1.
C16_Witness ==
    /\ pc = "hup"
    /\ i = 1
    /\ nfds = 3
    /\ POLLIN \in fds[2].revents
    /\ POLLIN \in fds[3].revents
    /\ clients[0].active = 1
    /\ trace # <<>>
    /\ trace[1].op = "read"
    /\ trace[1].fd = clients[1].fd

\* The calls of the trace that close descriptor fd.
ClosesOf(tr, fd) == {k \in DOMAIN tr : tr[k].op = "close" /\ tr[k].fd = fd}

(***************************************************************************)
(* C17.  The loop is left exactly when the listening socket's entry        *)
(* reports POLLERR or POLLHUP.  No client entry is dispatched after that:  *)
(* the next step closes the descriptor of every active session once, then  *)
(* the listening descriptor, and exits with status 0, with no descriptor   *)
(* but the console's left open.  The process exits in no other way once    *)
(* the loop has been entered.                                              *)
(***************************************************************************)
C17_LoopLeftOnListenerFailure ==
    [][/\ (pc' = "cleanup")
             <=> (pc = "server" /\ fds[1].revents \cap {POLLERR, POLLHUP} # {})
       /\ pc' = "cleanup" => TraceReads(trace') = {}
       /\ pc = "cleanup"
             => /\ pc' = "exit"
                /\ clients' = clients
                /\ \A s \in ActiveSlots(clients) :
                      Cardinality(ClosesOf(trace', clients[s].fd)) = 1
                /\ Len(trace') = Cardinality(ActiveSlots(clients)) + 2
                /\ trace'[Len(trace') - 1] = SysClose(server_sock)
                /\ trace'[Len(trace')] = SysExit(0)
                /\ open' = StdFds
       /\ (pc' = "exit" /\ pc # "setup") => pc = "cleanup"]_vars

\* The process has ended after the loop was left with two sessions active:
\* both descriptors and the listening one were closed.
C17_Witness ==
    /\ pc = "exit"
    /\ ActiveSlots(clients) = {0, 1}
    /\ Len(trace) = 4
    /\ trace[1] = SysClose(clients[0].fd)
    /\ trace[2] = SysClose(clients[1].fd)
    /\ trace[3] = SysClose(server_sock)
    /\ trace[4] = SysExit(0)
    /\ open = StdFds

(***************************************************************************)
(* C18.  The array build_poll_array hands to net_poll holds the listening  *)
(* socket first, then one entry for each active session in ascending slot  *)
(* order and nothing else; every entry asks for POLLIN only and has an     *)
(* empty result mask; the count is 1 plus the number of active sessions    *)
(* and at most MAX_CLIENTS + 1, the size of the array.                     *)
(***************************************************************************)
C18_PollArrayShape ==
    pc = "poll"
       => LET act == Ascending(ActiveSlots(clients))
          IN  /\ nfds = 1 + Len(act)
              /\ nfds = 1 + num_clients
              /\ Len(fds) = nfds
              /\ nfds <= MAX_CLIENTS + 1
              /\ fds[1].fd = server_sock
              /\ \A r \in 1 .. Len(act) : fds[r + 1].fd = clients[act[r]].fd
              /\ \A k \in 1 .. nfds : fds[k].events = {POLLIN} /\ fds[k].revents = {}

\* The array was built while slot 0 was free and slot 1 active: its second
\* entry is the session of slot 1.
C18_Witness ==
    /\ pc = "poll"
    /\ clients[0].active = 0
    /\ clients[1].active = 1
    /\ nfds = 2
    /\ fds[2].fd = clients[1].fd

\* The system calls of a trace.
SysCalls(tr) == {k \in DOMAIN tr : tr[k].op # "broadcast_message"}

\* Slot s was given an entry when the array was built.
HasEntry(s) == \E k \in DOMAIN built : built[k] = s

(***************************************************************************)
(* C19.  In one cycle an entry of the result is acted on only for the      *)
(* session it was made for: the dispatch of slot i takes the next entry    *)
(* not yet consumed, which was made for slot i and holds its descriptor;   *)
(* when the cycle ends every entry has been consumed, so every session of  *)
(* the set is examined once; a slot that is inactive when the loop is at   *)
(* it, or was released earlier in the cycle, causes no system call; and a  *)
(* session admitted during the cycle, which has no entry, is not           *)
(* dispatched.                                                             *)
(***************************************************************************)
C19_EntryActsOnItsSession ==
    [][/\ DataStep
             => /\ j' = idx
                /\ built[j' + 1] = i
                /\ fds[j' + 1].fd = clients[i].fd
                /\ \A k \in DOMAIN trace' :
                      trace'[k].op = "read" => trace'[k].fd = fds[j' + 1].fd
       /\ pc = "hup" => (idx' = idx + 1 /\ built[idx + 1] = i)
       /\ (pc = "clients" /\ pc' = "build") => idx = nfds
       /\ (pc = "clients" /\ pc' = "clients")
             => (trace' = <<>> /\ idx' = idx /\ clients' = clients
                 /\ (clients[i].active = 0 \/ ~HasEntry(i)))
       /\ (InClientPhase(pc) /\ i \in Slots /\ clients[i].active = 0)
             => SysCalls(trace') = {}
       /\ (InClientPhase(pc) /\ ~HasEntry(i)) => trace' = <<>>]_vars

(***************************************************************************)
(* C20.  remove_client called with a slot that is inactive, or with an     *)
(* index outside the table, changes nothing: it closes no descriptor and   *)
(* leaves num_clients, the open descriptors and every field of every slot  *)
(* as they were.  This holds for the function applied to every reachable   *)
(* table, and for the call main makes on a slot handle_client_data has     *)
(* already released.                                                       *)
(***************************************************************************)
C20_RemoveInactiveIsNoop ==
    [][/\ \A slot \in -1 .. MAX_CLIENTS :
             (slot \notin Slots \/ clients[slot].active = 0)
                => remove_client(TheWorld, slot) = TheWorld
       /\ (pc = "hup" /\ clients[i].active = 0
                      /\ fds[j + 1].revents \cap {POLLERR, POLLHUP} # {})
             => /\ clients' = clients
                /\ num_clients' = num_clients
                /\ open' = open
                /\ \A k \in DOMAIN trace' : trace'[k].op # "close"]_vars

\* The last step was main's teardown of a slot that was inactive already:
\* the announcement was broadcast and no descriptor closed.
C20_Witness ==
    /\ pc = "clients"
    /\ i > 0
    /\ clients[i - 1].active = 0
    /\ trace # <<>>
    /\ trace[1].op = "broadcast_message"
    /\ trace[1].msg = StrStars \o StrLeft
    /\ \A k \in DOMAIN trace : trace[k].op # "close"
    /\ num_clients = Cardinality(ActiveSlots(clients))

(***************************************************************************)
(* C21.  When net_poll returns with no entry ready, the loop starts over:  *)
(* neither handle_new_connection nor handle_client_data is called, no      *)
(* system call is issued, the table, the counter and the open descriptors  *)
(* are unchanged, and the next step rebuilds the array and waits again.    *)
(***************************************************************************)
C21_TimeoutReentersWait ==
    [][/\ (pc = "poll" /\ fds' = fds)
             => /\ pc' = "build"
                /\ trace' = <<>>
                /\ clients' = clients
                /\ num_clients' = num_clients
                /\ open' = open
       /\ pc = "build"
             => /\ pc' = "poll"
                /\ trace' = <<>>
                /\ clients' = clients
                /\ num_clients' = num_clients
                /\ open' = open]_vars

\* net_poll has just returned with no entry ready while a session was
\* active: every result mask is empty and the loop is about to start over.
C21_Witness ==
    /\ pc = "build"
    /\ nfds >= 2
    /\ num_clients >= 1
    /\ \A k \in 1 .. nfds : fds[k].revents = {}

\* The last step refused a connection for lack of a free slot.
LastStepRejected ==
    /\ Len(trace) = 3
    /\ trace[1].op = "accept"
    /\ trace[1].ret >= 0
    /\ trace[2].msg = StrFull
    /\ trace[3] = SysClose(trace[1].ret)

\* The last step admitted a connection into slot s.
LastStepAdmitted(s) ==
    /\ Len(trace) >= 3
    /\ trace[1].op = "accept"
    /\ trace[1].ret >= 0
    /\ trace[3].op = "broadcast_message"
    /\ trace[3].sender_slot = s

\* Slot s holds what accept and the name generation gave it, and was
\* welcomed under that name.
FreshSession(s) ==
    /\ clients[s].active = 1
    /\ clients[s].fd = trace[1].ret
    /\ clients[s].name = <<"u", "s", "e", "r">> \o Decimal(s)
    /\ clients[s].addr = Peer.addr
    /\ clients[s].port = Peer.port
    /\ trace[2] = SysWrite(trace[1].ret, StrWelcome \o clients[s].name \o <<"\n">>,
                           Len(StrWelcome) + Len(clients[s].name) + 1, trace[2].ret)

(***************************************************************************)
(* C22.  Refusing a connection does not stop the server: the loop goes on  *)
(* with the same cycle.  A later connection accepted when a slot has been  *)
(* released is admitted into the lowest free slot, also when that slot had *)
(* an occupant before, and gets the descriptor accept returned and the     *)
(* default nickname of the slot index; the nickname and descriptor of the  *)
(* earlier occupant are gone.                                              *)
(***************************************************************************)
C22_SlotReusedAfterRejection ==
    /\ [][/\ (AcceptStep /\ ActiveSlots(clients) = Slots)
                => /\ pc' \in {"clients", "cleanup"}
                   /\ pc' = "cleanup" <=> fds[1].revents \cap {POLLERR, POLLHUP} # {}
          /\ (AcceptStep /\ ActiveSlots(clients) # Slots)
                => LET slot == Min(Slots \ ActiveSlots(clients))
                   IN  /\ clients'[slot].active = 1
                       /\ clients'[slot].fd = trace'[1].ret
                       /\ clients'[slot].fd \notin {clients[s].fd : s \in ActiveSlots(clients)}
                       /\ clients'[slot].name = <<"u", "s", "e", "r">> \o Decimal(slot)
                       /\ \A s \in Slots \ {slot} : clients'[s] = clients[s]]_vars
    /\ [](LastStepRejected => [](\A s \in Slots : LastStepAdmitted(s) => FreshSession(s)))

\* The last step admitted a connection into slot 0, which had an occupant
\* before (the renamed session in slot 1 was admitted while slot 0 was
\* taken): it is "user0" on the descriptor accept returned.
C22_Witness ==
    /\ LastStepAdmitted(0)
    /\ FreshSession(0)
    /\ clients[1].active = 1
    /\ clients[1].name = <<"a", "l">>
    /\ clients[1].fd > clients[0].fd

(***************************************************************************)
(* C23.  A step that releases an active slot marks it inactive, closes its *)
(* descriptor exactly once, and clears the slot's identity: the nickname   *)
(* and the peer address and port.                                          *)
(***************************************************************************)
C23_ReleaseClearsIdentity ==
    [][\A s \in Slots :
          Released(s)
             => /\ Cardinality(ClosesOf(trace', clients[s].fd)) = 1
                /\ clients[s].fd \notin open'
                /\ clients'[s].fd = -1
                /\ clients'[s].name = <<>>
                /\ clients'[s].addr = 0
                /\ clients'[s].port = 0]_vars

(***************************************************************************)
(* The rename command on long input.  One session is active and is sent    *)
(* "/name " followed by up to MaxBody name bytes, a line terminator or     *)
(* none, and possibly a byte after it; handle_client_data runs on each.    *)
(***************************************************************************)
MaxBody == 33

Fill(c, n) == [k \in 1 .. n |-> c]

RenameTerms == {<<>>, <<"\n">>, <<"\r">>, <<"\r", "\n">>}

RenameData ==
    { <<"/", "n", "a", "m", "e", " ">> \o Fill("a", L) \o term \o tail :
         L \in 0 .. MaxBody, term \in RenameTerms, tail \in {<<>>, <<"z">>} }

\* The state in which the entry of the first session, alone in the table,
\* is about to be dispatched with POLLIN.
RenameInit ==
    /\ clients = [init_clients EXCEPT ![0] = [fd |-> 4, active |-> 1, name |-> DefaultName(0),
                                              addr |-> Peer.addr, port |-> Peer.port]]
    /\ num_clients = 1
    /\ server_sock = 3
    /\ open = StdFds \cup {3, 4}
    /\ nonblocking = {}
    /\ fds = <<PollFd(3), [PollFd(4) EXCEPT !.revents = {POLLIN}]>>
    /\ built = <<-1, 0>>
    /\ nfds = 2
    /\ idx = 1
    /\ i = 0
    /\ j = 0
    /\ pc = "clients"
    /\ trace = <<>>

\* handle_client_data reads one of the inputs.
RenameStep ==
    /\ pc = "clients"
    /\ \E buf \in RenameData, wr \in WritesOutcomes(clients) :
         SetWorld(handle_client_data(TheWorld, i, Len(buf), buf, wr))
    /\ pc' = "hup"
    /\ UNCHANGED <<nonblocking, built, server_sock, fds, nfds, idx, i, j>>

\* The rest of the cycle, and a later cycle up to the same entry.
RenameResume ==
    /\ pc = "hup"
    /\ pc' = "clients"
    /\ trace' = <<>>
    /\ UNCHANGED <<nonblocking, built, clients, num_clients, server_sock, open, fds, nfds, idx, i, j>>

RenameNext ==
    \/ RenameStep
    \/ RenameResume

RenameSpec == RenameInit /\ [][RenameNext]_vars

\* The bytes of s before its first carriage return or newline.
RECURSIVE UpToTerminator(_)
UpToTerminator(s) ==
    IF s = <<>> \/ Head(s) \in {"\n", "\r"} THEN <<>>
    ELSE <<Head(s)>> \o UpToTerminator(Tail(s))

\* s cut to at most n bytes.
Truncated(s, n) == IF Len(s) <= n THEN s ELSE SubSeq(s, 1, n)

(***************************************************************************)
(* C24.  After a rename command ("/name " and at least one more byte) the  *)
(* session's nickname is the bytes that follow "/name " up to, and not     *)
(* including, the first carriage return or newline, or up to the end of    *)
(* the data, cut to at most 31 bytes; no nickname is ever longer than 31   *)
(* bytes.                                                                  *)
(***************************************************************************)
C24_RenameExtractsName ==
    [][/\ (DataStep /\ Len(ReadBytes(trace')) > 6
                    /\ HasPrefix(ReadBytes(trace'), <<"/", "n", "a", "m", "e", " ">>))
             => LET data == ReadBytes(trace')
                    rest == SubSeq(data, 7, Len(data))
                IN  clients'[i].name = Truncated(UpToTerminator(rest), 31)
       /\ \A s \in Slots : Len(clients'[s].name) <= 31]_vars

\* The last step was a rename with 33 name bytes followed by a terminator
\* and another byte: the nickname is the first 31 of them.
C24_Witness ==
    /\ pc = "hup"
    /\ Len(ReadBytes(trace)) = 6 + 33 + 3
    /\ clients[0].name = Fill("a", 31)

\* The bytes open with the list token and go on with a byte that is not a
\* line terminator.
IsListWithMore(bytes) ==
    /\ Len(bytes) > 5
    /\ HasPrefix(bytes, <<"/", "l", "i", "s", "t">>)
    /\ bytes[6] \notin {"\n", "\r"}

(***************************************************************************)
(* C25.  Only the list token alone produces a listing.  Data that opens    *)
(* with "/list" and goes on with further bytes other than a terminator,    *)
(* such as "/listen", is a chat message: "[<nickname>] <data>" is written  *)
(* once to every other active session and nothing is written to the        *)
(* sender.                                                                 *)
(***************************************************************************)
C25_ListNeedsBareToken ==
    [][(DataStep /\ IsListWithMore(ReadBytes(trace')))
          => LET data == ReadBytes(trace')
                 text == <<"[">> \o clients[i].name \o <<"]", " ">> \o data
                         \o (IF data[Len(data)] = "\n" THEN <<>> ELSE <<"\n">>)
             IN  /\ WritesTo(trace', clients[i].fd) = {}
                 /\ \A s \in ActiveSlots(clients) \ {i} :
                       Cardinality(WritesTo(trace', clients[s].fd)) = 1
                 /\ \A k \in TraceWrites(trace') : trace'[k].msg = text]_vars

\* The step is the dispatch of the listening socket's entry, and accept
\* returned a negative value in it.
AcceptFailStep ==
    /\ pc = "server"
    /\ trace' # <<>>
    /\ trace'[1].op = "accept"
    /\ trace'[1].ret < 0

(***************************************************************************)
(* C26.  When accept returns a negative value, handle_new_connection       *)
(* leaves the table, the counter and the open descriptors unchanged and    *)
(* issues no other call, and the loop goes on to the client entries of the *)
(* same cycle.                                                             *)
(***************************************************************************)
C26_AcceptFailureContinues ==
    [][AcceptFailStep
          => /\ clients' = clients
             /\ num_clients' = num_clients
             /\ open' = open
             /\ Len(trace') = 1
             /\ pc' = "clients"
             /\ idx' = 1
             /\ i' = 0]_vars

(***************************************************************************)
(* C26, amended.  The same, except that the loop goes on to the client     *)
(* entries only if the listening socket's entry does not also report       *)
(* POLLERR or POLLHUP; if it does, the loop is left.                       *)
(***************************************************************************)
C26_AcceptFailureContinuesUnlessError ==
    [][AcceptFailStep
          => /\ clients' = clients
             /\ num_clients' = num_clients
             /\ open' = open
             /\ Len(trace') = 1
             /\ IF fds[1].revents \cap {POLLERR, POLLHUP} = {}
                THEN pc' = "clients" /\ idx' = 1 /\ i' = 0
                ELSE pc' = "cleanup"]_vars

\* accept has just returned a negative value while a session was active and
\* readable: the loop is at the client entries of the same cycle.
C26_Witness ==
    /\ pc = "clients"
    /\ idx = 1
    /\ i = 0
    /\ trace = <<SysAccept(server_sock, -1)>>
    /\ num_clients >= 1
    /\ nfds >= 2
    /\ POLLIN \in fds[2].revents

(***************************************************************************)
(* The list command at the table size of the source.  The table has        *)
(* SRC_MAX_CLIENTS slots, of which the first k are active; their nicknames *)
(* have lengths drawn from ListNameLens (all alike, but for the last       *)
(* one); one of the sessions sends "/list\n" and handle_client_data runs.  *)
(***************************************************************************)
LIST_MSG_SIZE == 512

ListNameLens == {0, 1, NAME_SIZE - 2, NAME_SIZE - 1}

SrcSlots == 0 .. (SRC_MAX_CLIENTS - 1)

\* The table with sessions in slots 0 .. k - 1, on descriptors 4 .. k + 3:
\* nicknames of len bytes, the last session's of last bytes.
ListTable(k, len, last) ==
    [s \in SrcSlots |->
        IF s < k
        THEN [fd |-> 4 + s, active |-> 1,
              name |-> Fill("a", IF s = k - 1 THEN last ELSE len),
              addr |-> Peer.addr, port |-> Peer.port]
        ELSE [fd |-> -1, active |-> 0, name |-> <<>>, addr |-> 0, port |-> 0]]

\* The state in which the entry of session i is about to be dispatched
\* with POLLIN, the entries before it having been consumed.
ListInit ==
    /\ \E k \in 1 .. SRC_MAX_CLIENTS, len \in ListNameLens, last \in ListNameLens :
         /\ clients = ListTable(k, len, last)
         /\ num_clients = k
         /\ open = StdFds \cup 3 .. (k + 3)
         /\ nfds = k + 1
         /\ built = [e \in 1 .. (k + 1) |-> e - 2]
         /\ i \in 0 .. (k - 1)
    /\ server_sock = 3
    /\ nonblocking = {}
    /\ fds = [e \in 1 .. nfds |->
                [PollFd(e + 2) EXCEPT !.revents = IF e = i + 2 THEN {POLLIN} ELSE {}]]
    /\ idx = i + 1
    /\ j = 0
    /\ pc = "clients"
    /\ trace = <<>>

\* handle_client_data reads the list command from session i.
ListStep ==
    /\ pc = "clients"
    /\ \E o \in WriteOutcomes :
         SetWorld(handle_client_data(TheWorld, i, 6, <<"/", "l", "i", "s", "t", "\n">>,
                                     [s \in SrcSlots |-> o]))
    /\ pc' = "hup"
    /\ j' = idx
    /\ UNCHANGED <<nonblocking, built, server_sock, fds, nfds, idx, i>>

ListNext == ListStep

ListSpec == ListInit /\ [][ListNext]_vars

\* The listings written in the last step.
ListingWrites(tr) == {k \in TraceWrites(tr) : HasPrefix(tr[k].msg, StrConnected)}

(***************************************************************************)
(* C27.  The listing composed for the list command, with its terminating   *)
(* NUL, fits the 512 bytes of list_msg, for every number of active         *)
(* sessions up to the table size of the source and nicknames of up to 31   *)
(* bytes.                                                                  *)
(***************************************************************************)
C27_ListingFitsBuffer ==
    \A k \in ListingWrites(trace) :
        /\ Len(trace[k].msg) = trace[k].len
        /\ trace[k].len + 1 <= LIST_MSG_SIZE

(***************************************************************************)
(* C28.  num_clients is the number of slots whose active flag is set and   *)
(* lies between 0 and MAX_CLIENTS; every inactive slot has fd = -1 and an  *)
(* empty nickname; every active slot has fd >= 0.                          *)
(***************************************************************************)
C28_CounterMatchesTable ==
    /\ num_clients = Cardinality({s \in Slots : clients[s].active = 1})
    /\ num_clients >= 0
    /\ num_clients <= MAX_CLIENTS
    /\ \A s \in Slots : clients[s].active \in {0, 1}
    /\ \A s \in Slots : clients[s].active = 0 => (clients[s].fd = -1 /\ clients[s].name = <<>>)
    /\ \A s \in Slots : clients[s].active = 1 => clients[s].fd >= 0

\* Slot 0 has been released while the session in slot 1 stays: the counter
\* is 1 and slot 0 is cleared.
C28_Witness ==
    /\ clients[0].active = 0
    /\ clients[0].addr # 0
    /\ clients[0].fd = -1
    /\ clients[1].active = 1
    /\ num_clients = 1
    /\ \E k \in DOMAIN trace : trace[k].op = "close"

=============================================================================
